---- MODULE Spec2Model ----
(***************************************************************************)
(* Model of src/renderers/dom/client/ReactEventListener.js: the top-level  *)
(* native-event dispatcher.  One dispatch cycle acquires a pooled          *)
(* TopLevelCallbackBookKeeping record, collects the ancestor chain of the  *)
(* event target (and of the related target), invokes the registered        *)
(* handler once per ancestor and releases the record in a finally block.   *)
(*                                                                         *)
(* JavaScript values: instances and DOM nodes are numbers, Undefined (0)   *)
(* is the absent value (undefined / null); strings model the other fields, *)
(* with JsNull for null.  Array indices are 0-based as in the source.      *)
(***************************************************************************)
EXTENDS Integers, Sequences, FiniteSets, TLC

\* --- bounds -------------------------------------------------------------
NumInst == 3
\* tree changes the handlers of one dispatch cycle make
MaxMoves == 1
\* state-update requests the handlers of one cycle issue
MaxUpdates == 2
\* listeners attached over a run
MaxListeners == 2
\* dispatchEvent activations nested in one another
MaxDepth == 2

\* --- JavaScript values --------------------------------------------------
Undefined == 0
JsNull == "null"
JsTrue == "true"
JsFalse == "false"

Insts == 1..NumInst
\* the node of instance i is node i; DocNode is a node no instance owns
DocNode == NumInst + 1
TopLevelTypes == {"topClick", "topMouseOver"}
Handlers == {"h1"}
NativeEvents == [target : 1..DocNode, relatedTarget : 0..DocNode]
\* the dispatchEvent calls the native listeners make: a click carries no
\* related target, a mouseover may carry one
Dispatches ==
  {d \in [topLevelType : TopLevelTypes, nativeEvent : NativeEvents] :
     d.topLevelType = "topClick" => d.nativeEvent.relatedTarget = Undefined}
NullEvent == [target |-> Undefined, relatedTarget |-> Undefined]
CollectFailures == {"none", "primary", "related"}

VARIABLES
  enabled,          \* ReactEventListener._enabled
  handleTopLevel,   \* ReactEventListener._handleTopLevel
  hostParent,       \* inst._hostParent, per instance
  domParent,        \* closest instance owning the parent node of the instance's node
  bkHeap,           \* every TopLevelCallbackBookKeeping ever constructed
  bkFree,           \* TopLevelCallbackBookKeeping.instancePool: copies of each record in the pool
  mdHeap,           \* every DOMEventMetadata ever constructed
  mdFree,           \* DOMEventMetadata.instancePool: copies of each object in the pool
  stack,            \* active dispatchEvent activations, innermost last
  lastOp,           \* how the last dispatchEvent call ended and, for a
                    \* finished dispatch cycle: whether a handler was invoked
                    \* (notified), whether ancestors were left to notify (pending)
                    \* and whether the record held several metadata objects (held)
  dirtyComponents,  \* ReactUpdates: state-update requests queued, not yet flushed
  listeners,        \* EventListener: the native listeners attached so far
  returned,         \* what the last trapBubbledEvent / trapCapturedEvent call returned
  delivering        \* the native event the host is delivering to its listeners

\* the state of the host's listener registry
traps == <<listeners, returned, delivering>>

vars == <<enabled, handleTopLevel, hostParent, domParent,
          bkHeap, bkFree, mdHeap, mdFree, stack, lastOp, dirtyComponents, traps>>

\* JavaScript array read: out-of-range (also negative) indices give undefined
At(arr, k) == IF k >= 0 /\ k < Len(arr) THEN arr[k + 1] ELSE Undefined

\* --- external collaborators --------------------------------------------
getEventTarget(nativeEvent) == nativeEvent.target

getClosestInstanceFromNode(node) == IF node \in Insts THEN node ELSE Undefined

getNodeFromInstance(inst) == inst

\* getClosestInstanceFromNode(rootNode.parentNode)
EnclosingInstance(dp, rootNode) == dp[rootNode]

\* a document: host parents follow the physical nesting, which is acyclic
WellFormedTree(hp, dp) ==
  \A i \in Insts : dp[i] \in 0..(i - 1) /\ hp[i] \in {Undefined, dp[i]}

\* --- PooledClass --------------------------------------------------------
\* some object of the pool (the pool holds k copies of object o when free[o] = k)
PoolPick(free) == CHOOSE o \in 1..Len(free) : free[o] > 0 /\ \A p \in 1..Len(free) : free[p] > 0 => o <= p

PoolHasFree(free) == \E o \in 1..Len(free) : free[o] > 0

PoolRelease(free, o) == [free EXCEPT ![o] = @ + 1]

\* --- DOMEventMetadata ---------------------------------------------------
DOMEventMetadata(isRelatedTarget) == [isRelatedTarget |-> isRelatedTarget]

DOMEventMetadataDestructor(md) == [md EXCEPT !.isRelatedTarget = JsNull]

\* DOMEventMetadata.getPooled(flag) on the pool state st = [heap, free]; the object is st'.got
MetadataGetPooled(st, flag) ==
  IF PoolHasFree(st.free)
    THEN LET o == PoolPick(st.free)
         IN [heap |-> [st.heap EXCEPT ![o] = DOMEventMetadata(flag)],
             free |-> [st.free EXCEPT ![o] = @ - 1],
             got |-> o]
    ELSE [heap |-> Append(st.heap, DOMEventMetadata(flag)),
          free |-> Append(st.free, 0),
          got |-> Len(st.heap) + 1]

\* DOMEventMetadata.release(o)
MetadataRelease(st, o) ==
  [heap |-> [st.heap EXCEPT ![o] = DOMEventMetadataDestructor(@)],
   free |-> PoolRelease(st.free, o)]

\* --- TopLevelCallbackBookKeeping ---------------------------------------
\* a constructor that does not assign topLevelType: the field keeps the value
\* the destructor left
TopLevelCallbackBookKeepingKeepsType(topLevelType, nativeEvent) ==
  [topLevelType |-> JsNull, nativeEvent |-> nativeEvent,
   ancestors |-> <<>>, ancestorMetadata |-> <<>>, relatedAncestors |-> <<>>,
   roots |-> <<>>, relatedRoots |-> <<>>]

TopLevelCallbackBookKeeping(topLevelType, nativeEvent) ==
  [topLevelType |-> topLevelType, nativeEvent |-> nativeEvent,
   ancestors |-> <<>>, ancestorMetadata |-> <<>>, relatedAncestors |-> <<>>,
   roots |-> <<>>, relatedRoots |-> <<>>]

\* a destructor that truncates ancestorMetadata before its release loop
DestructorReleasesAfterTruncate(bk) == <<>>

\* the metadata objects the destructor releases, in order (the loop runs
\* before ancestorMetadata.length = 0)
DestructorReleases(bk) == bk.ancestorMetadata

RECURSIVE ReleaseAll(_, _)
ReleaseAll(st, mds) ==
  IF mds = <<>> THEN st ELSE ReleaseAll(MetadataRelease(st, Head(mds)), Tail(mds))

BookKeepingDestructor(bk) ==
  [topLevelType |-> JsNull, nativeEvent |-> NullEvent,
   ancestors |-> <<>>, ancestorMetadata |-> <<>>, relatedAncestors |-> <<>>,
   roots |-> <<>>, relatedRoots |-> <<>>]

\* --- _collectAncestors --------------------------------------------------
\* a walk that takes one step up the host parents (if for while)
OutermostOneStep(hp, ancestor) ==
  IF hp[ancestor] # Undefined THEN hp[ancestor] ELSE ancestor

RECURSIVE Outermost(_, _)
Outermost(hp, ancestor) ==
  IF hp[ancestor] # Undefined THEN Outermost(hp, hp[ancestor]) ELSE ancestor

\* a collector that does not loop over the enclosing trees
CollectLoopOnce(hp, dp, ancestor, ancestors, roots) ==
  LET rootNode == getNodeFromInstance(Outermost(hp, ancestor))
  IN [ancestors |-> Append(ancestors, ancestor), roots |-> Append(roots, rootNode)]

RECURSIVE CollectLoop(_, _, _, _, _)
CollectLoop(hp, dp, ancestor, ancestors, roots) ==
  LET rootNode == getNodeFromInstance(Outermost(hp, ancestor))
      next == EnclosingInstance(dp, rootNode)
      out == [ancestors |-> Append(ancestors, ancestor), roots |-> Append(roots, rootNode)]
  IN IF next # Undefined
       THEN CollectLoop(hp, dp, next, out.ancestors, out.roots)
       ELSE out

\* a collector without the early return: an absent start instance is appended
collectAncestorsUnguarded(hp, dp, ancestors, roots, targetInst) ==
  IF targetInst = Undefined
    THEN [ancestors |-> Append(ancestors, targetInst), roots |-> roots]
    ELSE CollectLoop(hp, dp, targetInst, ancestors, roots)

collectAncestors(hp, dp, ancestors, roots, targetInst) ==
  IF targetInst = Undefined
    THEN [ancestors |-> ancestors, roots |-> roots]
    ELSE CollectLoop(hp, dp, targetInst, ancestors, roots)

\* --- handleTopLevelImpl: collection and reconciliation ------------------
\* JavaScript array write arr[k] = v for k >= 0 (k > length leaves holes)
RECURSIVE SetAt(_, _, _)
SetAt(arr, k, v) ==
  IF k < Len(arr) THEN [arr EXCEPT ![k + 1] = v]
  ELSE IF k = Len(arr) THEN Append(arr, v)
  ELSE SetAt(Append(arr, Undefined), k, v)

\* the work state w = [bk, heap, free]: the record and the metadata pool

\* a primary metadata loop that flags its entries as related
RECURSIVE AssignPrimaryMetadataRelated(_, _)
AssignPrimaryMetadataRelated(w, i) ==
  IF i < Len(w.bk.ancestors)
    THEN LET g == MetadataGetPooled([heap |-> w.heap, free |-> w.free], JsTrue)
         IN AssignPrimaryMetadataRelated(
              [bk |-> [w.bk EXCEPT !.ancestorMetadata = SetAt(@, i, g.got)],
               heap |-> g.heap, free |-> g.free], i + 1)
    ELSE w

\* for (i = 0; i < ancestors.length; i++) ancestorMetadata[i] = getPooled(false)
RECURSIVE AssignPrimaryMetadata(_, _)
AssignPrimaryMetadata(w, i) ==
  IF i < Len(w.bk.ancestors)
    THEN LET g == MetadataGetPooled([heap |-> w.heap, free |-> w.free], JsFalse)
         IN AssignPrimaryMetadata(
              [bk |-> [w.bk EXCEPT !.ancestorMetadata = SetAt(@, i, g.got)],
               heap |-> g.heap, free |-> g.free], i + 1)
    ELSE w

\* a related-target loop that appends the ancestor without its metadata
RelatedStepNoMetadata(w, i) ==
  LET bk == w.bk
      root == At(bk.roots, Len(bk.roots) - i)
      relatedRoot == At(bk.relatedRoots, Len(bk.relatedRoots) - i)
  IN IF root = Undefined \/ root # relatedRoot
       THEN [w EXCEPT !.bk = [bk EXCEPT
                         !.ancestors = Append(@, At(bk.relatedAncestors,
                                                    Len(bk.relatedAncestors) - i))]]
       ELSE w

\* the body of the related-target loop for one value of i
RelatedStep(w, i) ==
  LET bk == w.bk
      root == At(bk.roots, Len(bk.roots) - i)
      relatedRoot == At(bk.relatedRoots, Len(bk.relatedRoots) - i)
  IN IF root = Undefined \/ root # relatedRoot
       THEN LET g == MetadataGetPooled([heap |-> w.heap, free |-> w.free], JsTrue)
            IN [bk |-> [bk EXCEPT
                         !.ancestorMetadata = SetAt(@, Len(bk.ancestors), g.got),
                         !.ancestors = Append(@, At(bk.relatedAncestors,
                                                    Len(bk.relatedAncestors) - i))],
                heap |-> g.heap, free |-> g.free]
       ELSE w

\* for (i = -1; i < relatedAncestors.length - 1; i++)
RECURSIVE RelatedLoop(_, _)
RelatedLoop(w, i) ==
  IF i < Len(w.bk.relatedAncestors) - 1
    THEN RelatedLoop(RelatedStep(w, i), i + 1)
    ELSE w

\* the part of handleTopLevelImpl before the handler loop; fail names the
\* collaborator call that raises, if one does ("primary": while the primary
\* chain is collected, "related": while the related chain is collected)
CollectAndReconcile(hp, dp, w0, fail) ==
  LET bk0 == w0.bk
      targetInst == getClosestInstanceFromNode(getEventTarget(bk0.nativeEvent))
      relatedTargetInst == getClosestInstanceFromNode(bk0.nativeEvent.relatedTarget)
      c1 == collectAncestors(hp, dp, bk0.ancestors, bk0.roots, targetInst)
      w1 == AssignPrimaryMetadata(
              [w0 EXCEPT !.bk = [bk0 EXCEPT !.ancestors = c1.ancestors,
                                            !.roots = c1.roots]], 0)
      c2 == collectAncestors(hp, dp, w1.bk.relatedAncestors, w1.bk.relatedRoots,
                             relatedTargetInst)
      w2 == [w1 EXCEPT !.bk = [w1.bk EXCEPT !.relatedAncestors = c2.ancestors,
                                            !.relatedRoots = c2.roots]]
  IN IF fail = "primary"
       THEN [w0 EXCEPT !.bk = [bk0 EXCEPT !.ancestors = Append(@, targetInst)]]
     ELSE IF bk0.nativeEvent.relatedTarget = Undefined
       THEN w1
     ELSE IF fail = "related"
       THEN [w1 EXCEPT !.bk = [w1.bk EXCEPT !.relatedAncestors = Append(@, relatedTargetInst)]]
     ELSE RelatedLoop(w2, -1)

\* a collaborator can raise only where it is called
CanFail(nativeEvent, fail) ==
  \/ fail = "none"
  \/ /\ fail = "primary"
     /\ getClosestInstanceFromNode(getEventTarget(nativeEvent)) # Undefined
  \/ /\ fail = "related"
     /\ nativeEvent.relatedTarget # Undefined
     /\ getClosestInstanceFromNode(nativeEvent.relatedTarget) # Undefined

\* the ancestors list handleTopLevelImpl builds for an event on a tree
AncestorsOf(hp, dp, nativeEvent) ==
  CollectAndReconcile(hp, dp,
    [bk |-> TopLevelCallbackBookKeeping(JsNull, nativeEvent), heap |-> <<>>, free |-> <<>>],
    "none").bk.ancestors

\* --- handleTopLevelImpl: the handler loop -------------------------------
\* a handler loop that walks the tree again at each iteration
HandlerAncestorLazy(bk, i, hp, dp) == At(AncestorsOf(hp, dp, bk.nativeEvent), i)

\* targetInst = bookKeeping.ancestors[i]
HandlerAncestor(bk, i, hp, dp) == At(bk.ancestors, i)

\* a handler loop that passes the first metadata object to every handler
HandlerCallFirstMetadata(bk, i, hp, dp) ==
  [topLevelType |-> bk.topLevelType,
   targetInst |-> At(bk.ancestors, i),
   nativeEvent |-> bk.nativeEvent,
   nativeEventTarget |-> getEventTarget(bk.nativeEvent),
   metadata |-> At(bk.ancestorMetadata, 0)]

\* the arguments of ReactEventListener._handleTopLevel for index i
HandlerCall(bk, i, hp, dp) ==
  [topLevelType |-> bk.topLevelType,
   targetInst |-> HandlerAncestor(bk, i, hp, dp),
   nativeEvent |-> bk.nativeEvent,
   nativeEventTarget |-> getEventTarget(bk.nativeEvent),
   metadata |-> At(bk.ancestorMetadata, i)]

\* --- dispatchEvent ------------------------------------------------------
\* a dispatchEvent without the enable gate
DispatchGateOpen(en) == TRUE

\* if (!ReactEventListener._enabled) return;
DispatchGate(en) == en

\* a dispatchEvent that releases after the call instead of in a finally block
ReleasesOnSuccessOnly(pc) == pc = "done"

\* try { ... } finally { release }: the record is released however the body ended
ReleasesOnExit(pc) == TRUE

\* setEnabled: !!enabled
SetEnabledInputs == {"true", "false", "undefined", "0", "1"}
ToBoolean(v) == v \notin {"false", "null", "undefined", "0", ""}

\* a value of lastOp: op is "init" before the first dispatchEvent call, then
\* "dropped", "entered" (the cycle is running), "returned" or "threw"
Op(op) == [op |-> op, notified |-> FALSE, pending |-> FALSE, held |-> FALSE]

\* the values of returned: nothing returned yet, null, or a handle with a
\* remove operation (the index of its listener)
NoReturn == [kind |-> "none", handle |-> 0]
ReturnedNull == [kind |-> JsNull, handle |-> 0]
ReturnedHandle(h) == [kind |-> "handle", handle |-> h]

\* no native event is being delivered
NoDelivery ==
  [name |-> "none", element |-> Undefined, nativeEvent |-> NullEvent,
   todo |-> <<>>, calls |-> <<>>]

Top == stack[Len(stack)]
Idle == stack = <<>>
SetTop(f) == [stack EXCEPT ![Len(stack)] = f]

\* a batched-update scope around each handler invocation
InBatchedUpdatesPerCall(pc) == pc = "inHandler"

\* ReactUpdates.batchedUpdates(handleTopLevelImpl, bookKeeping): the positions
\* of a cycle that are inside the call
InBatchedUpdates(pc) == pc \in {"dispatching", "inHandler"}

\* ReactUpdates: the step of the running cycle from pcFrom to pcTo leaves the
\* outermost batched-update scope, which flushes the queued requests
Flushes(pcFrom, pcTo) ==
  /\ Len(stack) = 1
  /\ InBatchedUpdates(pcFrom)
  /\ ~InBatchedUpdates(pcTo)

\* the running cycle moves to pcTo
Goto(pcTo) ==
  [Top EXCEPT !.pc = pcTo,
              !.flushed = IF Flushes(Top.pc, pcTo) /\ dirtyComponents > 0
                            THEN Append(@, dirtyComponents) ELSE @]

DirtyAfter(pcTo) == IF Flushes(Top.pc, pcTo) THEN 0 ELSE dirtyComponents

Init ==
  /\ enabled = TRUE
  /\ handleTopLevel = JsNull
  /\ hostParent \in [Insts -> 0..NumInst]
  /\ domParent \in [Insts -> 0..NumInst]
  /\ WellFormedTree(hostParent, domParent)
  /\ bkHeap = <<>>
  /\ bkFree = <<>>
  /\ mdHeap = <<>>
  /\ mdFree = <<>>
  /\ stack = <<>>
  /\ lastOp = Op("init")
  /\ dirtyComponents = 0
  /\ listeners = <<>>
  /\ returned = NoReturn
  /\ delivering = NoDelivery

setHandleTopLevel(h) ==
  /\ Idle
  /\ handleTopLevel' = h
  /\ UNCHANGED <<enabled, hostParent, domParent, bkHeap, bkFree, mdHeap, mdFree, stack, lastOp>>
  /\ UNCHANGED <<dirtyComponents, traps>>

setEnabled(v) ==
  /\ Idle
  /\ enabled' = ToBoolean(v)
  /\ UNCHANGED <<handleTopLevel, hostParent, domParent, bkHeap, bkFree, mdHeap, mdFree,
                 stack, lastOp>>
  /\ UNCHANGED <<dirtyComponents, traps>>

\* dispatchEvent while disabled: the early return
DispatchReturnsEarly(topLevelType, nativeEvent) ==
  /\ ~DispatchGate(enabled)
  /\ lastOp' = Op("dropped")
  /\ UNCHANGED <<enabled, handleTopLevel, hostParent, domParent,
                 bkHeap, bkFree, mdHeap, mdFree, stack, dirtyComponents>>

\* the application calls dispatchEvent while disabled
DispatchDropped(topLevelType, nativeEvent) ==
  /\ Idle
  /\ DispatchReturnsEarly(topLevelType, nativeEvent)
  /\ UNCHANGED traps

\* a dispatcher that keeps one module-level record instead of a pooled one
SharedRecord(heap, free) == 1

\* TopLevelCallbackBookKeeping.getPooled: the record it gives, one of the
\* pool if there is one, else a new one
AcquiredRecord(heap, free) ==
  IF PoolHasFree(free) THEN PoolPick(free) ELSE Len(heap) + 1

\* dispatchEvent while enabled: getPooled, then handleTopLevelImpl up to the
\* handler loop
DispatchCall(topLevelType, nativeEvent, fail) ==
  /\ DispatchGate(enabled)
  /\ CanFail(nativeEvent, fail)
  /\ LET id == AcquiredRecord(bkHeap, bkFree)
         reuse == id \in DOMAIN bkHeap
         free1 == IF reuse THEN [bkFree EXCEPT ![id] = @ - 1] ELSE Append(bkFree, 0)
         acquired == TopLevelCallbackBookKeeping(topLevelType, nativeEvent)
         w == CollectAndReconcile(hostParent, domParent,
                [bk |-> acquired, heap |-> mdHeap, free |-> mdFree], fail)
     IN /\ bkHeap' = IF reuse THEN [bkHeap EXCEPT ![id] = w.bk] ELSE Append(bkHeap, w.bk)
        /\ bkFree' = free1
        /\ mdHeap' = w.heap
        /\ mdFree' = w.free
        /\ stack' = Append(stack,
             [bk |-> id, topLevelType |-> topLevelType, nativeEvent |-> nativeEvent,
              i |-> 0, pc |-> IF fail = "none" THEN "dispatching" ELSE "raised",
              calls |-> <<>>, moves |-> 0, collected |-> fail = "none",
              acquired |-> acquired, requested |-> 0, flushed |-> <<>>,
              entryAncestors |-> IF fail = "none"
                                   THEN AncestorsOf(hostParent, domParent, nativeEvent)
                                   ELSE <<>>])
  /\ lastOp' = Op("entered")
  /\ UNCHANGED <<enabled, handleTopLevel, hostParent, domParent, dirtyComponents>>

\* the application calls dispatchEvent while enabled
DispatchEnter(topLevelType, nativeEvent, fail) ==
  /\ Idle
  /\ DispatchCall(topLevelType, nativeEvent, fail)
  /\ UNCHANGED traps

\* a handler loop that also tests the gate at each iteration
HandlerLoopGated == enabled /\ Top.i < Len(bkHeap[Top.bk].ancestors)

\* i < bookKeeping.ancestors.length
HandlerLoopContinues == Top.i < Len(bkHeap[Top.bk].ancestors)

\* one iteration of the handler loop calls the handler; calling null raises
InvokeHandler ==
  /\ ~Idle
  /\ Top.pc = "dispatching"
  /\ HandlerLoopContinues
  /\ IF handleTopLevel = JsNull
       THEN /\ stack' = SetTop(Goto("raised"))
            /\ dirtyComponents' = DirtyAfter("raised")
       ELSE LET bk == bkHeap[Top.bk]
                call == HandlerCall(bk, Top.i, hostParent, domParent)
                entry == [handler |-> handleTopLevel,
                          args |-> call,
                          isRelatedTarget |-> IF call.metadata = Undefined THEN JsNull
                                              ELSE mdHeap[call.metadata].isRelatedTarget,
                          afterMutation |-> Top.moves > 0]
            IN /\ stack' = SetTop([Goto("inHandler") EXCEPT !.calls = Append(@, entry)])
               /\ dirtyComponents' = DirtyAfter("inHandler")
  /\ UNCHANGED <<enabled, handleTopLevel, hostParent, domParent,
                 bkHeap, bkFree, mdHeap, mdFree, lastOp, traps>>

\* the running handler changes the tree: an instance is moved under another
\* parent (as a host child or as a nested root) or detached
HandlerMutatesTree(inst, parent, asHostChild) ==
  /\ ~Idle
  /\ Top.pc = "inHandler"
  /\ Top.moves < MaxMoves
  /\ parent < inst
  /\ domParent' = [domParent EXCEPT ![inst] = parent]
  /\ hostParent' = [hostParent EXCEPT ![inst] = IF asHostChild THEN parent ELSE Undefined]
  /\ <<hostParent', domParent'>> # <<hostParent, domParent>>
  /\ stack' = SetTop([Top EXCEPT !.moves = @ + 1])
  /\ UNCHANGED <<enabled, handleTopLevel, bkHeap, bkFree, mdHeap, mdFree, lastOp>>
  /\ UNCHANGED <<dirtyComponents, traps>>

\* the running handler calls setEnabled
HandlerSetsEnabled(v) ==
  /\ ~Idle
  /\ Top.pc = "inHandler"
  /\ enabled' = ToBoolean(v)
  /\ enabled' # enabled
  /\ UNCHANGED <<handleTopLevel, hostParent, domParent, bkHeap, bkFree, mdHeap, mdFree,
                 stack, lastOp>>
  /\ UNCHANGED <<dirtyComponents, traps>>

\* the running handler issues a state-update request (setState)
HandlerRequestsUpdate ==
  /\ ~Idle
  /\ Top.pc = "inHandler"
  /\ Top.requested < MaxUpdates
  /\ dirtyComponents' = dirtyComponents + 1
  /\ stack' = SetTop([Top EXCEPT !.requested = @ + 1])
  /\ UNCHANGED <<enabled, handleTopLevel, hostParent, domParent,
                 bkHeap, bkFree, mdHeap, mdFree, lastOp, traps>>

\* the running handler calls dispatchEvent
HandlerDispatches(topLevelType, nativeEvent) ==
  /\ ~Idle
  /\ Top.pc = "inHandler"
  /\ Len(stack) < MaxDepth
  /\ IF DispatchGate(enabled)
       THEN DispatchCall(topLevelType, nativeEvent, "none")
       ELSE DispatchReturnsEarly(topLevelType, nativeEvent)
  /\ UNCHANGED traps

HandlerReturns ==
  /\ ~Idle
  /\ Top.pc = "inHandler"
  /\ stack' = SetTop([Goto("dispatching") EXCEPT !.i = @ + 1])
  /\ dirtyComponents' = DirtyAfter("dispatching")
  /\ UNCHANGED <<enabled, handleTopLevel, hostParent, domParent,
                 bkHeap, bkFree, mdHeap, mdFree, lastOp, traps>>

HandlerRaises ==
  /\ ~Idle
  /\ Top.pc = "inHandler"
  /\ stack' = SetTop(Goto("raised"))
  /\ dirtyComponents' = DirtyAfter("raised")
  /\ UNCHANGED <<enabled, handleTopLevel, hostParent, domParent,
                 bkHeap, bkFree, mdHeap, mdFree, lastOp, traps>>

\* the handler loop ends: batchedUpdates returns
LoopExit ==
  /\ ~Idle
  /\ Top.pc = "dispatching"
  /\ ~HandlerLoopContinues
  /\ stack' = SetTop(Goto("done"))
  /\ dirtyComponents' = DirtyAfter("done")
  /\ UNCHANGED <<enabled, handleTopLevel, hostParent, domParent,
                 bkHeap, bkFree, mdHeap, mdFree, lastOp, traps>>

\* the finally block, then dispatchEvent returns or rethrows to its caller
DispatchExit ==
  /\ ~Idle
  /\ Top.pc \in {"done", "raised"}
  /\ IF ReleasesOnExit(Top.pc)
       THEN LET st == ReleaseAll([heap |-> mdHeap, free |-> mdFree],
                                 DestructorReleases(bkHeap[Top.bk]))
            IN /\ mdHeap' = st.heap
               /\ mdFree' = st.free
               /\ bkHeap' = [bkHeap EXCEPT ![Top.bk] = BookKeepingDestructor(@)]
               /\ bkFree' = PoolRelease(bkFree, Top.bk)
       ELSE UNCHANGED <<bkHeap, bkFree, mdHeap, mdFree>>
  /\ stack' = SubSeq(stack, 1, Len(stack) - 1)
  /\ lastOp' = [op |-> IF Top.pc = "done" THEN "returned" ELSE "threw",
                notified |-> Len(Top.calls) >= 1,
                pending |-> Len(Top.calls) < Len(bkHeap[Top.bk].ancestors),
                held |-> Len(bkHeap[Top.bk].ancestorMetadata) >= 2]
  /\ UNCHANGED <<enabled, handleTopLevel, hostParent, domParent>>
  /\ UNCHANGED <<dirtyComponents, traps>>

Next ==
  \/ \E h \in Handlers : setHandleTopLevel(h)
  \/ \E v \in SetEnabledInputs : setEnabled(v)
  \/ \E d \in Dispatches : DispatchDropped(d.topLevelType, d.nativeEvent)
  \/ \E d \in Dispatches, f \in CollectFailures :
       DispatchEnter(d.topLevelType, d.nativeEvent, f)
  \/ InvokeHandler
  \/ \E v \in SetEnabledInputs : HandlerSetsEnabled(v)
  \/ HandlerReturns
  \/ HandlerRaises
  \/ LoopExit
  \/ DispatchExit

Spec == Init /\ [][Next]_vars

\* The first dispatch cycle after start-up, with handlers that change the
\* tree: the dispatcher with its handler injected, on any tree.
InitMutation ==
  /\ enabled = TRUE
  /\ handleTopLevel = "h1"
  /\ hostParent \in [Insts -> 0..NumInst]
  /\ domParent \in [Insts -> 0..NumInst]
  /\ WellFormedTree(hostParent, domParent)
  /\ bkHeap = <<>>
  /\ bkFree = <<>>
  /\ mdHeap = <<>>
  /\ mdFree = <<>>
  /\ stack = <<>>
  /\ lastOp = Op("init")
  /\ dirtyComponents = 0
  /\ listeners = <<>>
  /\ returned = NoReturn
  /\ delivering = NoDelivery

NextMutation ==
  \/ \E e \in NativeEvents : lastOp = Op("init") /\ DispatchEnter("topMouseOver", e, "none")
  \/ InvokeHandler
  \/ \E inst \in Insts, parent \in 0..NumInst, b \in BOOLEAN : HandlerMutatesTree(inst, parent, b)
  \/ HandlerReturns
  \/ LoopExit
  \/ DispatchExit

SpecMutation == InitMutation /\ [][NextMutation]_vars

\* Dispatch cycles that run to completion: the dispatcher with its handler
\* injected, handlers that return, on any tree. dispatchEvent is synchronous
\* and single-threaded, so once a cycle is entered each of its steps is taken.
InitLive ==
  /\ enabled = TRUE
  /\ handleTopLevel = "h1"
  /\ hostParent \in [Insts -> 0..NumInst]
  /\ domParent \in [Insts -> 0..NumInst]
  /\ WellFormedTree(hostParent, domParent)
  /\ bkHeap = <<>>
  /\ bkFree = <<>>
  /\ mdHeap = <<>>
  /\ mdFree = <<>>
  /\ stack = <<>>
  /\ lastOp = Op("init")
  /\ dirtyComponents = 0
  /\ listeners = <<>>
  /\ returned = NoReturn
  /\ delivering = NoDelivery

NextLive ==
  \/ \E d \in Dispatches : DispatchEnter(d.topLevelType, d.nativeEvent, "none")
  \/ InvokeHandler
  \/ HandlerReturns
  \/ LoopExit
  \/ DispatchExit

SpecLive ==
  /\ InitLive
  /\ [][NextLive]_vars
  /\ WF_vars(InvokeHandler)
  /\ WF_vars(HandlerReturns)
  /\ WF_vars(LoopExit)
  /\ WF_vars(DispatchExit)

\* ========================================================================
\* Properties
\* ========================================================================
\* --- trapBubbledEvent, trapCapturedEvent ---------------------------------
EventNames == {"click", "mouseover"}

\* the handle argument of a trap call: absent, or the document
TrapElements == {Undefined, DocNode}

\* a listener that forwards to dispatchEvent under the event's name
TrapListenerBindsName(topLevelType, handlerBaseName, element, capture) ==
  [element |-> element, name |-> handlerBaseName, capture |-> capture,
   boundType |-> handlerBaseName]

\* EventListener.listen / capture (element, handlerBaseName,
\* ReactEventListener.dispatchEvent.bind(null, topLevelType))
TrapListener(topLevelType, handlerBaseName, element, capture) ==
  [element |-> element, name |-> handlerBaseName, capture |-> capture,
   boundType |-> topLevelType]

\* a trap call: null for an absent element, else the listener is attached
\* and its handle returned
Trap(topLevelType, handlerBaseName, handle, capture) ==
  /\ Idle
  /\ delivering.todo = <<>>
  /\ Len(listeners) < MaxListeners
  /\ IF handle = Undefined
       THEN /\ returned' = ReturnedNull
            /\ listeners' = listeners
       ELSE /\ listeners' = Append(listeners,
                 [listener |-> TrapListener(topLevelType, handlerBaseName, handle, capture),
                  registered |-> [topLevelType |-> topLevelType, name |-> handlerBaseName,
                                  element |-> handle],
                  removed |-> FALSE])
            /\ returned' = ReturnedHandle(Len(listeners) + 1)
  /\ delivering' = NoDelivery
  /\ UNCHANGED <<enabled, handleTopLevel, hostParent, domParent,
                 bkHeap, bkFree, mdHeap, mdFree, stack, lastOp, dirtyComponents>>

trapBubbledEvent(topLevelType, handlerBaseName, handle) ==
  Trap(topLevelType, handlerBaseName, handle, FALSE)

trapCapturedEvent(topLevelType, handlerBaseName, handle) ==
  Trap(topLevelType, handlerBaseName, handle, TRUE)

\* the remove operation of the handle a trap call returned
RemoveListener(h) ==
  /\ Idle
  /\ delivering.todo = <<>>
  /\ h \in DOMAIN listeners
  /\ ~listeners[h].removed
  /\ listeners' = [listeners EXCEPT ![h].removed = TRUE]
  /\ delivering' = NoDelivery
  /\ UNCHANGED <<enabled, handleTopLevel, hostParent, domParent,
                 bkHeap, bkFree, mdHeap, mdFree, stack, lastOp, dirtyComponents, returned>>

\* the handles of the attached listeners of one phase for an event
RECURSIVE ListenersFor(_, _, _, _)
ListenersFor(name, element, capture, h) ==
  IF h > Len(listeners) THEN <<>>
  ELSE LET l == listeners[h]
       IN (IF /\ ~l.removed
              /\ l.listener.name = name
              /\ l.listener.element = element
              /\ l.listener.capture = capture
            THEN <<h>> ELSE <<>>) \o ListenersFor(name, element, capture, h + 1)

\* a native event reaches an element: the host will call the element's
\* listeners for that event name, capture phase first
NativeEventFires(name, element, nativeEvent) ==
  /\ Idle
  /\ delivering.todo = <<>>
  /\ delivering' = [name |-> name, element |-> element, nativeEvent |-> nativeEvent,
                    todo |-> ListenersFor(name, element, TRUE, 1)
                               \o ListenersFor(name, element, FALSE, 1),
                    calls |-> <<>>]
  /\ UNCHANGED <<enabled, handleTopLevel, hostParent, domParent,
                 bkHeap, bkFree, mdHeap, mdFree, stack, lastOp, dirtyComponents,
                 listeners, returned>>

\* the host calls the next listener, which calls dispatchEvent with the
\* type it was bound to
ListenerCalled ==
  /\ Idle
  /\ delivering.todo # <<>>
  /\ LET h == Head(delivering.todo)
         topLevelType == listeners[h].listener.boundType
     IN /\ delivering' =
             [delivering EXCEPT !.todo = Tail(@),
                                !.calls = Append(@, [handle |-> h,
                                                     topLevelType |-> topLevelType,
                                                     nativeEvent |-> delivering.nativeEvent])]
        /\ IF DispatchGate(enabled)
             THEN DispatchCall(topLevelType, delivering.nativeEvent, "none")
             ELSE DispatchReturnsEarly(topLevelType, delivering.nativeEvent)
  /\ UNCHANGED <<listeners, returned>>

\* the events the host delivers
TrapEvents == {e \in NativeEvents : e.target = 1 /\ e.relatedTarget = Undefined}

\* The dispatcher behind native listeners: its handler is injected and the
\* document holds one tree, a chain of host children
InitTrap ==
  /\ enabled = TRUE
  /\ handleTopLevel = "h1"
  /\ hostParent = [i \in Insts |-> i - 1]
  /\ domParent = [i \in Insts |-> i - 1]
  /\ bkHeap = <<>>
  /\ bkFree = <<>>
  /\ mdHeap = <<>>
  /\ mdFree = <<>>
  /\ stack = <<>>
  /\ lastOp = Op("init")
  /\ dirtyComponents = 0
  /\ listeners = <<>>
  /\ returned = NoReturn
  /\ delivering = NoDelivery

NextTrap ==
  \/ \E t \in TopLevelTypes, n \in EventNames, el \in TrapElements :
       trapBubbledEvent(t, n, el)
  \/ \E t \in TopLevelTypes, n \in EventNames, el \in TrapElements :
       trapCapturedEvent(t, n, el)
  \/ \E h \in 1..MaxListeners : RemoveListener(h)
  \/ \E v \in {"true", "false"} : setEnabled(v)
  \/ \E n \in EventNames, el \in {1, DocNode}, e \in TrapEvents : NativeEventFires(n, el, e)
  \/ ListenerCalled
  \/ InvokeHandler
  \/ HandlerReturns
  \/ LoopExit
  \/ DispatchExit

SpecTrap == InitTrap /\ [][NextTrap]_vars

\* Dispatch cycles whose handlers dispatch events themselves, on a document
\* of root containers nested one in another (instance i is the only instance
\* of its tree, and its container lies in the node of instance i - 1)
NestedEvents == {d \in Dispatches : d.topLevelType = "topClick"}

InitNested ==
  /\ enabled = TRUE
  /\ handleTopLevel = "h1"
  /\ hostParent = [i \in Insts |-> Undefined]
  /\ domParent = [i \in Insts |-> i - 1]
  /\ bkHeap = <<>>
  /\ bkFree = <<>>
  /\ mdHeap = <<>>
  /\ mdFree = <<>>
  /\ stack = <<>>
  /\ lastOp = Op("init")
  /\ dirtyComponents = 0
  /\ listeners = <<>>
  /\ returned = NoReturn
  /\ delivering = NoDelivery

NextNested ==
  \/ \E d \in NestedEvents : DispatchEnter(d.topLevelType, d.nativeEvent, "none")
  \/ InvokeHandler
  \/ \E d \in NestedEvents : HandlerDispatches(d.topLevelType, d.nativeEvent)
  \/ HandlerReturns
  \/ LoopExit
  \/ DispatchExit

SpecNested == InitNested /\ [][NextNested]_vars

\* Dispatch cycles whose handlers issue state-update requests
NextBatch ==
  \/ \E d \in Dispatches : DispatchEnter(d.topLevelType, d.nativeEvent, "none")
  \/ InvokeHandler
  \/ HandlerRequestsUpdate
  \/ HandlerReturns
  \/ LoopExit
  \/ DispatchExit

SpecBatch == InitLive /\ [][NextBatch]_vars

Frames == {stack[k] : k \in DOMAIN stack}

\* the metadata objects a record holds
HeldMetadata(bk) == {bk.ancestorMetadata[j] : j \in DOMAIN bk.ancestorMetadata}

\* C1: the ancestors passed to the handlers of a cycle are those computed
\* from the tree as it was when dispatchEvent was entered; tree changes made
\* by a handler change neither their number, identity nor order.
C1_AncestorsFixedAtEntry ==
  \A f \in Frames :
    /\ bkHeap[f.bk].ancestors = f.entryAncestors
    /\ Len(f.calls) <= Len(f.entryAncestors)
    /\ \A j \in DOMAIN f.calls : f.calls[j].args.targetInst = f.entryAncestors[j]
    /\ f.pc = "done" => Len(f.calls) = Len(f.entryAncestors)

\* a handler was invoked after an earlier handler of the cycle changed the
\* tree, with an ancestor the changed tree no longer gives at that index
C1_Witness ==
  \E f \in Frames :
    /\ Len(f.calls) >= 2
    /\ f.calls[Len(f.calls)].afterMutation
    /\ f.calls[Len(f.calls)].args.targetInst
         # At(AncestorsOf(hostParent, domParent, f.nativeEvent), Len(f.calls) - 1)

\* C2: a record is out of its pool exactly while its cycle runs, the
\* metadata out of their pool are exactly those the running cycle's record
\* holds, and no object is in a pool twice; so after every exit, normal or
\* not, nothing acquired is left unreleased.
C2_PoolsBalanced ==
  /\ \A o \in DOMAIN bkHeap :
       bkFree[o] = IF \E f \in Frames : f.bk = o THEN 0 ELSE 1
  /\ \A m \in DOMAIN mdHeap :
       mdFree[m] = IF \E f \in Frames : m \in HeldMetadata(bkHeap[f.bk]) THEN 0 ELSE 1
  /\ \A f \in Frames : LET md == bkHeap[f.bk].ancestorMetadata
                       IN \A j1, j2 \in DOMAIN md : md[j1] = md[j2] => j1 = j2

\* a cycle that held metadata has exited because a handler raised
C2_Witness ==
  /\ Idle
  /\ lastOp.op = "threw"
  /\ lastOp.notified
  /\ lastOp.held
  /\ \A m \in DOMAIN mdHeap : mdFree[m] = 1

\* a step that is a dispatchEvent call
DispatchCallStep ==
  \/ Len(stack') > Len(stack)
  \/ lastOp'.op = "dropped" /\ lastOp.op # "dropped"

\* C3: dispatchEvent while disabled starts no cycle, invokes no handler,
\* acquires and releases nothing, and leaves the flag and the handler as
\* they are; enabling dispatch again starts no cycle either.
C3_DisabledDispatchIsNoOp ==
  [][/\ (~enabled /\ DispatchCallStep) =>
          UNCHANGED <<enabled, handleTopLevel, bkHeap, bkFree, mdHeap, mdFree, stack>>
     /\ (~enabled /\ enabled') =>
          UNCHANGED <<handleTopLevel, bkHeap, bkFree, mdHeap, mdFree, stack>>]_vars

\* an event was dropped with a handler registered and objects in the pools
C3_Witness ==
  /\ lastOp.op = "dropped"
  /\ ~enabled
  /\ handleTopLevel # JsNull
  /\ \E o \in DOMAIN bkHeap : bkFree[o] = 1
  /\ \E m \in DOMAIN mdHeap : mdFree[m] = 1

\* C4: once a handler has raised, no further handler of the cycle runs: the
\* next step is the exit of dispatchEvent, which rethrows to the caller with
\* the record already back in its pool.
C4_RaiseAbortsAndPropagates ==
  [][(~Idle /\ Top.pc = "raised") =>
       /\ Idle'
       /\ lastOp'.op = "threw"
       /\ lastOp'.notified = (Len(Top.calls) >= 1)
       /\ Len(Top.calls) <= Top.i + 1
       /\ bkFree'[Top.bk] = 1
       /\ bkHeap'[Top.bk] = BookKeepingDestructor(bkHeap[Top.bk])]_vars

\* a cycle was aborted by a handler while ancestors were left to notify
C4_Witness ==
  /\ Idle
  /\ lastOp.op = "threw"
  /\ lastOp.notified
  /\ lastOp.pending

\* C5: a cycle whose handlers all returned has invoked the handler once per
\* entry of ancestors, in list order, the i-th time with (topLevelType,
\* ancestors[i], nativeEvent, the event's target, ancestorMetadata[i]).
C5_OneCallPerAncestorInOrder ==
  \A f \in Frames :
    f.pc = "done" =>
      LET bk == bkHeap[f.bk]
      IN /\ Len(f.calls) = Len(bk.ancestors)
         /\ \A j \in DOMAIN f.calls :
              /\ f.calls[j].handler = handleTopLevel
              /\ f.calls[j].args =
                   [topLevelType |-> f.topLevelType,
                    targetInst |-> bk.ancestors[j],
                    nativeEvent |-> f.nativeEvent,
                    nativeEventTarget |-> f.nativeEvent.target,
                    metadata |-> bk.ancestorMetadata[j]]

\* a cycle notified several ancestors and ended normally
C5_Witness ==
  \E f \in Frames :
    /\ f.pc = "done"
    /\ Len(f.calls) >= 3
    /\ f.calls[1].args.targetInst # f.calls[2].args.targetInst

\* C6: no entry of ancestors is absent, and no handler is invoked with an
\* absent ancestor instance.
C6_NoAbsentAncestor ==
  \A f \in Frames :
    /\ \A j \in DOMAIN bkHeap[f.bk].ancestors : bkHeap[f.bk].ancestors[j] # Undefined
    /\ \A j \in DOMAIN f.calls : f.calls[j].args.targetInst # Undefined

\* the cycle's event has a related target and collection has completed
Reconciled(f) == f.collected /\ f.nativeEvent.relatedTarget # Undefined

\* the entries reconciliation appended: those after the primary chain, which
\* has one entry per primary root
Appended(bk) == SubSeq(bk.ancestors, Len(bk.roots) + 1, Len(bk.ancestors))

\* C7: with the related target in the same single, non-nested root as the
\* primary target, reconciliation appends nothing and no handler is invoked
\* with isRelatedTarget = true.
C7_SameRootAppendsNothing ==
  \A f \in Frames :
    LET bk == bkHeap[f.bk]
    IN (/\ Reconciled(f)
        /\ Len(bk.roots) = 1 /\ Len(bk.relatedRoots) = 1
        /\ bk.roots[1] = bk.relatedRoots[1])
       => /\ Appended(bk) = <<>>
          /\ \A j \in DOMAIN f.calls : f.calls[j].isRelatedTarget # JsTrue

\* C8: with the related target in a different, non-nested root than the
\* primary target, reconciliation appends exactly one entry, the single entry
\* of relatedAncestors, with isRelatedTarget = true.
C8_OtherRootAppendsRelatedAncestor ==
  \A f \in Frames :
    LET bk == bkHeap[f.bk]
    IN (/\ Reconciled(f)
        /\ Len(bk.roots) = 1 /\ Len(bk.relatedRoots) = 1
        /\ bk.roots[1] # bk.relatedRoots[1])
       => /\ Appended(bk) = <<bk.relatedAncestors[1]>>
          /\ Len(bk.ancestorMetadata) = 2
          /\ mdHeap[bk.ancestorMetadata[2]].isRelatedTarget = JsTrue

\* the depths, counted from the outermost end, at which the related chain
\* has a root the primary chain does not share
NovelDepths(bk) ==
  {d \in 0..(Len(bk.relatedRoots) - 1) :
     \/ d >= Len(bk.roots)
     \/ At(bk.roots, Len(bk.roots) - 1 - d) # At(bk.relatedRoots, Len(bk.relatedRoots) - 1 - d)}

\* C9: reconciliation appends the related ancestor at depth d (from the
\* outermost end) exactly when the primary chain has no root at depth d or
\* the two roots at depth d differ, and nothing else.
C9_ReconciliationMatchesReference ==
  \A f \in Frames :
    LET bk == bkHeap[f.bk]
        app == Appended(bk)
    IN Reconciled(f) =>
         /\ Len(app) = Cardinality(NovelDepths(bk))
         /\ {app[j] : j \in DOMAIN app}
              = {At(bk.relatedAncestors, Len(bk.relatedAncestors) - 1 - d) : d \in NovelDepths(bk)}

\* C10: once collection and reconciliation are complete, ancestors and
\* ancestorMetadata have the same length, the primary entries carry
\* isRelatedTarget = false and the appended ones isRelatedTarget = true.
C10_MetadataParallelToAncestors ==
  \A f \in Frames :
    LET bk == bkHeap[f.bk]
    IN f.collected =>
         /\ Len(bk.ancestors) = Len(bk.ancestorMetadata)
         /\ \A j \in DOMAIN bk.ancestorMetadata :
              /\ bk.ancestorMetadata[j] \in DOMAIN mdHeap
              /\ mdHeap[bk.ancestorMetadata[j]].isRelatedTarget
                   = IF j <= Len(bk.roots) THEN JsFalse ELSE JsTrue

\* the last handler of a cycle with primary and appended entries is running
C10_Witness ==
  \E f \in Frames :
    LET bk == bkHeap[f.bk]
    IN /\ f.collected
       /\ f.pc = "inHandler"
       /\ Len(bk.roots) >= 2
       /\ Len(bk.ancestors) > Len(bk.roots)
       /\ Len(f.calls) = Len(bk.ancestors)

\* the instances the targets of a cycle's event resolve to
TargetInst(f) == getClosestInstanceFromNode(getEventTarget(f.nativeEvent))
RelatedTargetInst(f) == getClosestInstanceFromNode(f.nativeEvent.relatedTarget)

\* C11: for an event with no related target, relatedAncestors and
\* relatedRoots stay empty, ancestors is exactly the chain the collector
\* gives for the target, and every handler call has isRelatedTarget = false.
C11_NoRelatedTargetAllPrimary ==
  \A f \in Frames :
    LET bk == bkHeap[f.bk]
    IN f.nativeEvent.relatedTarget = Undefined =>
         /\ bk.relatedAncestors = <<>>
         /\ bk.relatedRoots = <<>>
         /\ f.collected =>
              bk.ancestors =
                collectAncestors(hostParent, domParent, <<>>, <<>>, TargetInst(f)).ancestors
         /\ \A j \in DOMAIN f.calls : f.calls[j].isRelatedTarget = JsFalse

\* a cycle without related target has notified a chain of several ancestors
C11_Witness ==
  \E f \in Frames :
    /\ f.nativeEvent.relatedTarget = Undefined
    /\ f.pc = "done"
    /\ Len(f.calls) >= 2

\* the runs of the collector whose output a record shows unchanged: the
\* primary run of an event without related target, the related run otherwise
CollectorRuns(f) ==
  LET bk == bkHeap[f.bk]
  IN IF ~f.collected THEN {}
     ELSE IF f.nativeEvent.relatedTarget = Undefined
       THEN {[start |-> TargetInst(f), ancestors |-> bk.ancestors, roots |-> bk.roots]}
       ELSE {[start |-> RelatedTargetInst(f), ancestors |-> bk.relatedAncestors,
              roots |-> bk.relatedRoots]}

\* the outermost instance of the logical tree of an instance
RECURSIVE LogicalTreeRoot(_)
LogicalTreeRoot(inst) ==
  IF hostParent[inst] = Undefined THEN inst ELSE LogicalTreeRoot(hostParent[inst])

\* the outermost instances of the logical trees around an instance, innermost
\* tree first
RECURSIVE EnclosingTrees(_)
EnclosingTrees(inst) ==
  LET top == LogicalTreeRoot(inst)
  IN IF domParent[top] = Undefined THEN <<top>>
     ELSE <<top>> \o EnclosingTrees(domParent[top])

\* a leaf below the outermost instance of a tree that is nested in no other
LeafOfSingleTree(inst) ==
  /\ inst # Undefined
  /\ hostParent[inst] # Undefined
  /\ Len(EnclosingTrees(inst)) = 1

\* C12 as stated: collect on a leaf of a single tree appends one ancestor,
\* the outermost instance of the tree, and one root.
C12_LeafGivesOutermostInstance ==
  \A f \in Frames : \A run \in CollectorRuns(f) :
    LeafOfSingleTree(run.start) =>
      /\ run.ancestors = <<LogicalTreeRoot(run.start)>>
      /\ Len(run.roots) = 1

\* C12 amended: collect on a leaf of a single tree appends one ancestor, the
\* leaf itself, and one root, the node of the tree's outermost instance.
C12_LeafGivesItselfAndTreeRoot ==
  \A f \in Frames : \A run \in CollectorRuns(f) :
    LeafOfSingleTree(run.start) =>
      /\ run.ancestors = <<run.start>>
      /\ run.roots = <<getNodeFromInstance(LogicalTreeRoot(run.start))>>

\* the collector ran on a leaf two host parents below the outermost instance
C12_Witness ==
  \E f \in Frames : \E run \in CollectorRuns(f) :
    /\ LeafOfSingleTree(run.start)
    /\ hostParent[hostParent[run.start]] # Undefined

\* C13: collect from an instance inside k nested trees appends k ancestors
\* and k roots, innermost first: roots[i] is the root of the i-th enclosing
\* tree and ancestors[i+1] the closest instance owning the parent of roots[i].
C13_OnePairPerNestedTree ==
  \A f \in Frames : \A run \in CollectorRuns(f) :
    run.start # Undefined =>
      LET trees == EnclosingTrees(run.start)
      IN /\ Len(run.ancestors) = Len(trees)
         /\ Len(run.roots) = Len(trees)
         /\ run.ancestors[1] = run.start
         /\ \A j \in DOMAIN trees :
              /\ run.roots[j] = getNodeFromInstance(trees[j])
              /\ j < Len(trees) =>
                   run.ancestors[j + 1] = EnclosingInstance(domParent, run.roots[j])

\* the collector ran from inside three trees nested one in another
C13_Witness ==
  \E f \in Frames : \E run \in CollectorRuns(f) :
    /\ run.start # Undefined
    /\ Len(EnclosingTrees(run.start)) >= 3
    /\ Len(run.roots) >= 3

\* C17: with the primary target owned by no instance and a related chain of
\* n entries, the handler is invoked n times, once for each entry of
\* relatedAncestors, each time with isRelatedTarget = true.
C17_RelatedOnlyChainNotified ==
  \A f \in Frames :
    LET bk == bkHeap[f.bk]
    IN (/\ f.pc = "done"
        /\ TargetInst(f) = Undefined
        /\ RelatedTargetInst(f) # Undefined)
       => /\ Len(f.calls) = Len(bk.relatedAncestors)
          /\ {f.calls[j].args.targetInst : j \in DOMAIN f.calls}
               = {bk.relatedAncestors[j] : j \in DOMAIN bk.relatedAncestors}
          /\ \A j \in DOMAIN f.calls : f.calls[j].isRelatedTarget = JsTrue

\* C16: a record as getPooled returns it has topLevelType and nativeEvent
\* equal to the arguments of the acquire and its five lists empty, also when
\* the object was used and released before (its roots are those of this
\* cycle's chains only); a metadata object a record holds has the
\* isRelatedTarget its acquire was given, never the destructor's null.
C16_AcquiredObjectsAreFresh ==
  \A f \in Frames :
    LET bk == bkHeap[f.bk]
    IN /\ f.acquired.topLevelType = f.topLevelType
       /\ f.acquired.nativeEvent = f.nativeEvent
       /\ f.acquired.ancestors = <<>>
       /\ f.acquired.ancestorMetadata = <<>>
       /\ f.acquired.relatedAncestors = <<>>
       /\ f.acquired.roots = <<>>
       /\ f.acquired.relatedRoots = <<>>
       /\ bk.topLevelType = f.topLevelType
       /\ bk.nativeEvent = f.nativeEvent
       /\ f.collected =>
            /\ bk.roots =
                 collectAncestors(hostParent, domParent, <<>>, <<>>, TargetInst(f)).roots
            /\ bk.relatedRoots =
                 collectAncestors(hostParent, domParent, <<>>, <<>>,
                                  RelatedTargetInst(f)).roots
       /\ \A j \in DOMAIN bk.ancestorMetadata :
            mdHeap[bk.ancestorMetadata[j]].isRelatedTarget
              = IF j <= Len(bk.roots) THEN JsFalse ELSE JsTrue

\* a cycle runs on a record and metadata that an earlier cycle released (a
\* metadata object of that cycle is still in the pool), for another event type
C16_Witness ==
  \E f \in Frames :
    LET bk == bkHeap[f.bk]
    IN /\ f.topLevelType = "topClick"
       /\ bk.ancestorMetadata # <<>>
       /\ \E o \in DOMAIN mdFree :
            /\ mdFree[o] > 0
            /\ \A j \in DOMAIN bk.ancestorMetadata : bk.ancestorMetadata[j] < o

\* JavaScript's conversion to boolean of the values setEnabled is called with
JsTruthy(v) == v \in {"true", "1"}

\* C20: isEnabled() is true at first; only setEnabled changes it, to the
\* boolean value of its argument, and no step of a dispatch cycle does. The
\* gate is read when dispatchEvent is entered only: a cycle starts only
\* while enabled, but a cycle whose handler disabled the listener leaves its
\* loop only after the last ancestor, and its record goes back to the pool.
C20_GateSampledAtEntry ==
  /\ enabled = TRUE
  /\ [][/\ enabled' # enabled =>
             /\ stack' = stack
             /\ Idle \/ Top.pc = "inHandler"
        /\ \A v \in SetEnabledInputs :
             (setEnabled(v) \/ HandlerSetsEnabled(v)) => enabled' = JsTruthy(v)
        /\ (Idle /\ ~Idle') => enabled
        /\ (~Idle /\ ~Idle' /\ ~enabled /\ Top.pc = "dispatching"
              /\ stack'[Len(stack)].pc = "done") =>
             /\ Len(Top.calls) = Len(bkHeap[Top.bk].ancestors)
             /\ \A j \in DOMAIN Top.calls :
                  Top.calls[j].args.targetInst = bkHeap[Top.bk].ancestors[j]
        /\ (~Idle /\ Len(stack') < Len(stack)) => bkFree'[Top.bk] = 1
       ]_vars

\* a cycle that notified several ancestors ends with the listener disabled
\* (the cycle was entered enabled, so one of its handlers disabled it)
C20_Witness ==
  \E f \in Frames :
    /\ ~enabled
    /\ f.pc = "done"
    /\ Len(f.calls) >= 2
    /\ Len(f.calls) = Len(bkHeap[f.bk].ancestors)

\* C18: every dispatch cycle that is entered ends with its record back in
\* the pool; a cycle whose target no instance owns and whose event has no
\* related target collects nothing and invokes no handler, and still holds a
\* record of its own until it ends.
C18_EveryCycleIsReleased ==
  /\ (~Idle) ~> (/\ Idle
                 /\ lastOp.op = "returned"
                 /\ \A o \in DOMAIN bkFree : bkFree[o] = 1)
  /\ [](\A f \in Frames :
          (TargetInst(f) = Undefined /\ f.nativeEvent.relatedTarget = Undefined) =>
            /\ bkHeap[f.bk].ancestors = <<>>
            /\ bkHeap[f.bk].roots = <<>>
            /\ f.calls = <<>>
            /\ bkFree[f.bk] = 0)

\* a cycle ended without a handler invocation and its record is in the pool
C18_Witness ==
  /\ Idle
  /\ lastOp.op = "returned"
  /\ ~lastOp.notified
  /\ bkFree = <<1>>

\* C14: the handlers of a cycle run in one batched-update scope: while the
\* handler loop runs, every request issued so far is queued and nothing has
\* been flushed; when the loop has ended, the requests of the cycle have
\* been flushed together, once, and none is left queued.
C14_OneFlushAfterLastHandler ==
  \A f \in Frames :
    /\ f.pc \in {"dispatching", "inHandler"} =>
         /\ f.flushed = <<>>
         /\ dirtyComponents = f.requested
    /\ f.pc = "done" =>
         /\ dirtyComponents = 0
         /\ f.flushed = IF f.requested > 0 THEN <<f.requested>> ELSE <<>>

\* a cycle in which two handlers issued a request each has ended
C14_Witness ==
  \E f \in Frames :
    /\ f.pc = "done"
    /\ Len(f.calls) >= 2
    /\ f.requested = 2
    /\ f.flushed = <<2>>

\* the dispatchEvent calls the listener of handle h made for the event
\* being delivered
CallsOf(h) == SelectSeq(delivering.calls, LAMBDA c : c.handle = h)

\* C15: a trap call with an absent element returns null and attaches
\* nothing; a listener a trap call attached makes, for each native event of
\* its name on its element, exactly one dispatchEvent call, with the
\* topLevelType of its registration and that event, and none once its handle
\* was removed.
C15_OneDispatchPerEventUntilRemoved ==
  /\ [](\A h \in DOMAIN listeners :
          LET l == listeners[h]
              due == /\ delivering.name = l.registered.name
                     /\ delivering.element = l.registered.element
                     /\ ~l.removed
          IN /\ l.registered.element # Undefined
             /\ \A k \in DOMAIN CallsOf(h) :
                  /\ CallsOf(h)[k].topLevelType = l.registered.topLevelType
                  /\ CallsOf(h)[k].nativeEvent = delivering.nativeEvent
             /\ Len(CallsOf(h)) <= (IF due THEN 1 ELSE 0)
             /\ delivering.todo = <<>> => Len(CallsOf(h)) = (IF due THEN 1 ELSE 0))
  /\ [][/\ (\E t \in TopLevelTypes, n \in EventNames :
                \/ trapBubbledEvent(t, n, Undefined)
                \/ trapCapturedEvent(t, n, Undefined)) =>
               /\ returned' = ReturnedNull
               /\ listeners' = listeners
        /\ Len(listeners') > Len(listeners) =>
             /\ returned' = ReturnedHandle(Len(listeners'))
             /\ Len(listeners') = Len(listeners) + 1
       ]_vars

\* an event was delivered after a listener of its name on its element was
\* removed: another listener was called once, the removed one not at all
C15_Witness ==
  /\ Idle
  /\ lastOp.op = "returned"
  /\ delivering.todo = <<>>
  /\ Len(delivering.calls) = 1
  /\ \E h \in DOMAIN listeners :
       /\ listeners[h].removed
       /\ listeners[h].registered.name = delivering.name
       /\ listeners[h].registered.element = delivering.element

\* a cycle that is not the innermost one, or that a nested cycle is just
\* being started from
Suspended(k) ==
  \/ k < Len(stack)
  \/ k = Len(stack) /\ Len(stack') > Len(stack)

\* C19: the cycles nested in one another hold distinct records and disjoint
\* metadata, all out of their pools; no step of a nested cycle, from its
\* entry to its return, changes the outer cycle's position, its record or
\* its metadata; an outer cycle still notifies every ancestor, and when all
\* cycles have ended each record and metadata object is in its pool once.
C19_NestedCycleLeavesOuterRecord ==
  /\ [](/\ \A j, k \in DOMAIN stack :
             j # k =>
               /\ stack[j].bk # stack[k].bk
               /\ HeldMetadata(bkHeap[stack[j].bk]) \cap HeldMetadata(bkHeap[stack[k].bk]) = {}
        /\ \A f \in Frames :
             /\ bkFree[f.bk] = 0
             /\ \A md \in HeldMetadata(bkHeap[f.bk]) : mdFree[md] = 0
             /\ bkHeap[f.bk].topLevelType = f.topLevelType
             /\ bkHeap[f.bk].nativeEvent = f.nativeEvent
             /\ f.pc = "done" => Len(f.calls) = Len(bkHeap[f.bk].ancestors)
        /\ Idle => /\ \A o \in DOMAIN bkFree : bkFree[o] = 1
                   /\ \A o \in DOMAIN mdFree : mdFree[o] = 1)
  /\ [][\A k \in DOMAIN stack :
          Suspended(k) =>
            /\ k \in DOMAIN stack'
            /\ stack'[k] = stack[k]
            /\ bkHeap'[stack[k].bk] = bkHeap[stack[k].bk]
            /\ bkFree'[stack[k].bk] = 0
            /\ \A md \in HeldMetadata(bkHeap[stack[k].bk]) :
                 /\ mdHeap'[md] = mdHeap[md]
                 /\ mdFree'[md] = 0
       ]_vars

\* an outer cycle has notified its last ancestor after a cycle nested in
\* one of its handlers returned
C19_Witness ==
  /\ Len(stack) = 1
  /\ Top.pc = "done"
  /\ Len(Top.calls) >= 2
  /\ lastOp.op = "returned"
  /\ lastOp.notified
  /\ Len(bkHeap) >= 2
====
